---- MODULE Spec2Model ----
(***************************************************************************)
(* Model of the website monitor of src/main.go (second, Mastodon-enabled   *)
(* revision, lines 769-1759): the reconciliation cycle checkWebsite, the   *)
(* persisted link data, the per-platform publishing with its token         *)
(* handling, and the scheduler of main / runMonitoring.                    *)
(*                                                                         *)
(* Strings of the configuration are modelled by "is it non-empty"          *)
(* (BOOLEAN) where the code only tests them against "", and by small       *)
(* string values where the code passes the value on (tokens).  A time      *)
(* comparison against a token expiry is a BOOLEAN of the configuration     *)
(* that the passing of time can flip.                                      *)
(***************************************************************************)
EXTENDS Integers, Sequences, FiniteSets, TLC

\* ---------------------------------------------------------------- bounds
\* The link identifiers that can occur on the monitored page.
AllLinks == {"a", "b"}
\* Cap on len(savedData.Links) + len(newLinks) of a cycle (the code has none).
MaxLen == 2

\* ------------------------------------------------------------- sequences
Range(s) == {s[i] : i \in 1..Len(s)}

RECURSIVE SeqsUpTo(_)
SeqsUpTo(n) ==
    IF n = 0 THEN {<<>>}
    ELSE LET S == SeqsUpTo(n - 1)
         IN  S \cup {Append(s, l) : s \in {t \in S : Len(t) = n - 1}, l \in AllLinks}

\* What extractLinks can return: a list of hrefs, repetitions included (a page
\* of at most as many hrefs as there are links).
ObservedLists == SeqsUpTo(Cardinality(AllLinks))

\* Number of occurrences of x in s.
Count(s, x) == Cardinality({i \in 1..Len(s) : s[i] = x})

\* --------------------------------------------------------- configuration
\* Config: TRUE for a non-empty string field.
ConfigOf(ls, lc, lu, lp, lt, lf, ms, ma, mu, mp, mi, mc, mt, me) ==
    [LemmyServer |-> ls, LemmyCommunity |-> lc, LemmyUsername |-> lu,
     LemmyPassword |-> lp, LemmyToken |-> lt, LemmyTokenFresh |-> lf,
     MastodonServer |-> ms, MastodonAccessToken |-> ma,
     MastodonUsername |-> mu, MastodonPassword |-> mp,
     MastodonClientID |-> mi, MastodonClientSecret |-> mc,
     MastodonToken |-> mt, MastodonTokenExpired |-> me]

\* The configurations a run starts from (config.json as loadConfig reads it).
\* LemmyTokenFresh is time.Now().Before(LemmyTokenExp); MastodonTokenExpired
\* is time.Now().After(MastodonTokenExp).  An empty token has the zero expiry,
\* which lies in the past.
\* Lemmy, <<server and community, username and password, token, fresh>>:
\* nothing set; credentials and no token; credentials and a stored token.
LemmySettings ==
    {<<FALSE, FALSE, "", FALSE>>, <<TRUE, TRUE, "", FALSE>>,
     <<TRUE, TRUE, "jwtCached", TRUE>>}

\* Mastodon, <<server, access token, login fields, token, expired>>: nothing
\* set; an access token only; the login fields and no token at all (main
\* then asks for one interactively).
MastodonSettings ==
    {<<FALSE, "", FALSE, "", TRUE>>, <<TRUE, "acc", FALSE, "", TRUE>>,
     <<TRUE, "", TRUE, "", TRUE>>}

\* The Mastodon login fields are set in Mastodon-only configurations.
Configs ==
    {ConfigOf(l[1], l[1], l[2], l[2], l[3], l[4],
              m[1], m[2], m[3], m[3], m[3], m[3], m[4], m[5]) :
        <<l, m>> \in {x \in LemmySettings \X MastodonSettings :
                        x[2][3] => ~x[1][1]}}

lemmyConfigured(c) ==
    c.LemmyServer /\ c.LemmyCommunity /\ c.LemmyUsername /\ c.LemmyPassword

mastodonConfigured(c) == c.MastodonServer /\ c.MastodonAccessToken # ""

\* ------------------------------------------------------- pure functions
\* findNewLinks retrying only the failed links that are still on the page.
findNewLinks_DropsVanished(currentLinks, savedLinks, failedLinks) ==
    SelectSeq(currentLinks, LAMBDA l : l \notin Range(savedLinks))
        \o SelectSeq(failedLinks, LAMBDA l : l \in Range(currentLinks))

\* findNewLinks with the failed links ahead of the new ones.
findNewLinks_PendingFirst(currentLinks, savedLinks, failedLinks) ==
    failedLinks \o SelectSeq(currentLinks, LAMBDA l : l \notin Range(savedLinks))

\* findNewLinks: the observed links that are not saved, in page order,
\* followed by every failed link.
findNewLinks(currentLinks, savedLinks, failedLinks) ==
    SelectSeq(currentLinks, LAMBDA l : l \notin Range(savedLinks)) \o failedLinks

\* findRemovedLinks: the saved links that are no longer observed.
findRemovedLinks(currentLinks, savedLinks) ==
    SelectSeq(savedLinks, LAMBDA l : l \notin Range(currentLinks))

\* loadLinkData on an absent file: empty lists, no error.
EmptyLinkData == [Links |-> <<>>, FailedLinks |-> <<>>]

\* ------------------------------------------------------------------ state
VARIABLES
    testMode,      \* flag -test
    loopMode,      \* flag -loop
    config,        \* main's config, as loadConfig returned it
    dataFile,      \* config.DataFile on disk: [exists, Links, FailedLinks]
    configFile,    \* config.json on disk
    pc,            \* where the process is
    cfg,           \* checkWebsite's parameter config (a copy of main's)
    currentLinks,  \* checkWebsite: extractLinks' result
    savedData,     \* checkWebsite: the LinkData being updated
    prior,         \* the LinkData as loaded at the start of the cycle
    newLinks,      \* checkWebsite: findNewLinks' result
    removedLinks,  \* checkWebsite: findRemovedLinks' result
    jwt,           \* checkWebsite: Lemmy token of this cycle
    communityID,   \* checkWebsite: Lemmy community id of this cycle
    idx,           \* checkWebsite: position of the loop over newLinks
    calls,         \* platform API calls of the latest step, in order
    last,          \* the latest loop iteration: link, outcomes, list marked
    withText,      \* links whose excerpt came out non-empty, this cycle
    failedNow,     \* links a configured platform failed for, this cycle
    acceptedNow,   \* links every configured platform took a post of, this cycle
    err,           \* checkWebsite's return value is an error
    trial,         \* a repeated-page experiment: the page, the cycles begun
    sched          \* runMonitoring's ticker, the context, signals delivered

process == <<testMode, loopMode, config>>
disk    == <<dataFile, configFile>>
frame   == <<cfg, currentLinks, savedData, prior, newLinks, removedLinks,
             jwt, communityID, idx, calls, last, withText, failedNow,
             acceptedNow, err>>
vars    == <<testMode, loopMode, config, dataFile, configFile, pc, cfg,
             currentLinks, savedData, prior, newLinks, removedLinks, jwt,
             communityID, idx, calls, last, withText, failedNow, acceptedNow,
             err, trial, sched>>

\* One platform API call: op is the function called, link the link it was
\* made for ("-" for the per-cycle calls), tok the token it carried;
\* it is the loop iteration (0 before the loop); id is the community id a
\* lemmyCreatePost call carries (0 in every other call).
Call(op, it, link, tok, ok) ==
    [op |-> op, it |-> it, link |-> link, tok |-> tok, ok |-> ok, id |-> 0]

\* ------------------------------------------------------ outcomes (inputs)
\* What fetching and extracting a detail page can give: fetchURL fails,
\* extractTextBetweenHR fails, the text is empty, or there is a text.
Excerpts == {"fetcherr", "extracterr", "empty", "text"}

\* lemmyLogin: an error, a 200 answer without a jwt, or a jwt.
LemmyLoginResults == {"err", "empty", "ok"}

\* lemmyGetCommunityID: an error (id 0), or the id of the community.
CommunityResults == {"err", "ok"}

\* mastodonLogin: an error, a 200 answer without access_token, a token with
\* expires_in <= 0 (expiry not after now), a token with expires_in > 0.
MastodonLoginResults == {"err", "empty", "expiring", "lasting"}

\* -------------------------------------------------- the frame, when idle
\* Before the first iteration of the loop over newLinks.
NoIteration ==
    [link |-> "-", excerpt |-> "-", lemmySuccess |-> TRUE,
     mastodonSuccess |-> TRUE, mark |-> "none"]

\* The summary of one iteration: mark is the list the link was appended to.
Iteration(link, excerpt, lemmySuccess, mastodonSuccess, mark) ==
    [link |-> link, excerpt |-> excerpt, lemmySuccess |-> lemmySuccess,
     mastodonSuccess |-> mastodonSuccess, mark |-> mark]

NoFrame ==
    /\ cfg = config
    /\ currentLinks = <<>>
    /\ savedData = EmptyLinkData
    /\ prior = EmptyLinkData
    /\ newLinks = <<>>
    /\ removedLinks = <<>>
    /\ jwt = ""
    /\ communityID = 0
    /\ idx = 1
    /\ calls = <<>>
    /\ last = NoIteration
    /\ withText = {}
    /\ failedNow = {}
    /\ acceptedNow = {}
    /\ err = FALSE

\* A call of checkWebsite(config, testMode): fresh locals, config by value.
EnterCheckWebsite(c) ==
    /\ cfg' = c
    /\ currentLinks' = <<>>
    /\ savedData' = EmptyLinkData
    /\ prior' = EmptyLinkData
    /\ newLinks' = <<>>
    /\ removedLinks' = <<>>
    /\ jwt' = ""
    /\ communityID' = 0
    /\ idx' = 1
    /\ calls' = <<>>
    /\ last' = NoIteration
    /\ withText' = {}
    /\ failedNow' = {}
    /\ acceptedNow' = {}
    /\ err' = FALSE

\* No experiment: the page is whatever each cycle finds.
NoTrial == [page |-> <<>>, round |-> 0]

\* The scheduler left out: no ticker channel, context not cancelled, no
\* signal delivered.
NoSched == [ticker |-> "none", cancelled |-> FALSE, signalled |-> FALSE]

Init ==
    /\ trial = NoTrial
    /\ sched = NoSched
    /\ testMode \in BOOLEAN
    /\ loopMode \in BOOLEAN
    /\ config \in Configs
    /\ configFile = config
    /\ dataFile = [exists |-> FALSE, Links |-> <<>>, FailedLinks |-> <<>>]
    /\ pc = "main"
    /\ NoFrame

\* ------------------------------------------------------------- main
\* main, lines 1719-1726: the interactive OAuth flow runs when a Mastodon
\* server and client id/secret are set and there is no token at all.
needsInteractiveToken(c) ==
    /\ c.MastodonServer /\ c.MastodonClientID /\ c.MastodonClientSecret
    /\ c.MastodonAccessToken = "" /\ c.MastodonToken = ""

\* obtainMastodonTokenInteractive on success: both token fields are set; the
\* expiry is set only for expires_in > 0.
withInteractiveToken(c, lasting) ==
    [c EXCEPT !.MastodonAccessToken = "acc", !.MastodonToken = "acc",
              !.MastodonTokenExpired = IF lasting THEN FALSE ELSE @]

\* main up to its first call of checkWebsite (directly, or as the first
\* statement of runMonitoring).
Main ==
    /\ pc = "main"
    /\ IF needsInteractiveToken(config)
       THEN \/ \* no code entered, token exchange failed: log.Fatalf
               /\ pc' = "fatal"
               /\ UNCHANGED <<config, configFile, frame>>
            \/ \E lasting \in BOOLEAN :
               \* token obtained and saved
               /\ config' = withInteractiveToken(config, lasting)
               /\ configFile' = config'
               /\ pc' = "fetch"
               /\ EnterCheckWebsite(config')
            \/ \E lasting \in BOOLEAN :
               \* token obtained, saveConfig fails: log.Fatalf
               /\ config' = withInteractiveToken(config, lasting)
               /\ pc' = "fatal"
               /\ cfg' = config'
               /\ UNCHANGED <<configFile, currentLinks, savedData, prior,
                              newLinks, removedLinks, jwt, communityID, idx,
                              calls, last, withText, failedNow, acceptedNow,
                              err>>
       ELSE /\ pc' = "fetch"
            /\ EnterCheckWebsite(config)
            /\ UNCHANGED <<config, configFile>>
    /\ UNCHANGED <<testMode, loopMode, dataFile, trial, sched>>

\* ----------------------------------------------------- checkWebsite
\* loadLinkData reading an absent file as one that lists "a" as published.
loadLinkData_AbsentAsPublished ==
    IF dataFile.exists
    THEN [Links |-> dataFile.Links, FailedLinks |-> dataFile.FailedLinks]
    ELSE [Links |-> <<"a">>, FailedLinks |-> <<>>]

\* loadLinkData of the file as it is on disk (lines 885-912): an absent file
\* gives the empty lists and no error (lines 889-891).
loadLinkData ==
    IF dataFile.exists
    THEN [Links |-> dataFile.Links, FailedLinks |-> dataFile.FailedLinks]
    ELSE EmptyLinkData

\* CheckAbort writing an empty link file on its way out.
CheckAbort_SavesAnyway ==
    /\ pc = "fetch"
    /\ err' = TRUE
    /\ pc' = "returned"
    /\ dataFile' = [exists |-> TRUE, Links |-> <<>>, FailedLinks |-> <<>>]
    /\ UNCHANGED <<process, configFile, cfg, currentLinks, savedData, prior,
                   newLinks, removedLinks, jwt, communityID, idx, calls, last,
                   withText, failedNow, acceptedNow, trial, sched>>

\* Lines 1169-1186, error returns: the main page cannot be fetched, the links
\* cannot be extracted, or the link file exists and cannot be read or parsed.
CheckAbort ==
    /\ pc = "fetch"
    /\ err' = TRUE
    /\ pc' = "returned"
    /\ UNCHANGED <<process, disk, cfg, currentLinks, savedData, prior,
                   newLinks, removedLinks, jwt, communityID, idx, calls, last,
                   withText, failedNow, acceptedNow, trial, sched>>

\* resetFailed leaving the stored failed links in place.
resetFailed_Keeps(data, nl) == data

\* Lines 1204-1208: with something to post, the failed links of the link data
\* are emptied; the loop fills them again.
resetFailed(data, nl) ==
    IF Len(nl) > 0 THEN [data EXCEPT !.FailedLinks = <<>>] ELSE data

\* afterFetch going to the logins even with nothing to post.
afterFetch_AlwaysAuth(nl) == "auth"

\* Line 1204: the logins, the community lookup and the loop are all inside
\* `if len(newLinks) > 0`.
afterFetch(nl) == IF Len(nl) > 0 THEN "auth" ELSE "save"

\* Lines 1169-1208: page fetched, links extracted, link data loaded, new and
\* removed links computed, FailedLinks reset when there is something to post.
Fetch(pages) ==
    /\ pc = "fetch"
    /\ \E obs \in pages :
        LET data == loadLinkData
            nl   == findNewLinks(obs, data.Links, data.FailedLinks)
        IN  /\ Len(data.Links) + Len(nl) <= MaxLen
            /\ currentLinks' = obs
            /\ prior' = data
            /\ newLinks' = nl
            /\ removedLinks' = findRemovedLinks(obs, data.Links)
            /\ savedData' = resetFailed(data, nl)
            /\ pc' = afterFetch(nl)
    /\ UNCHANGED <<process, disk, cfg, jwt, communityID, idx, calls, last,
                   withText, failedNow, acceptedNow, err>>

\* The page can list any links.
CheckFetch == Fetch(ObservedLists) /\ UNCHANGED <<trial, sched>>

\* Line 1211: the stored Lemmy token is used when it is set and not expired.
lemmyTokenUsable(c) == c.LemmyToken # "" /\ c.LemmyTokenFresh

\* Lines 1229-1238: the community lookup, made when there is a token; an
\* error leaves the id 0.
CommunityLookup(before, tok, res) ==
    IF tok # ""
    THEN /\ communityID' = IF res = "ok" THEN 1 ELSE 0
         /\ calls' = before \o
                <<Call("lemmyGetCommunityID", 0, "-", tok, res = "ok")>>
    ELSE /\ communityID' = 0
         /\ calls' = before

\* Lines 1210-1238: the Lemmy token of the cycle (stored or by login) and the
\* community id.  lemmyLogin cannot reach a server whose URL is empty.
CheckAuth ==
    /\ pc = "auth"
    /\ \E login \in LemmyLoginResults, res \in CommunityResults :
        LET usable == lemmyTokenUsable(cfg)
            tok    == IF usable THEN cfg.LemmyToken
                      ELSE IF login = "ok" THEN "jwtNew" ELSE ""
            logins == IF usable THEN <<>>
                      ELSE <<Call("lemmyLogin", 0, "-", "", login # "err")>>
        IN  /\ (~usable /\ ~cfg.LemmyServer) => login = "err"
            /\ jwt' = tok
            /\ cfg' = IF usable \/ login = "err" THEN cfg
                      ELSE [cfg EXCEPT !.LemmyToken = tok,
                                       !.LemmyTokenFresh = TRUE]
            /\ CommunityLookup(logins, tok, res)
    /\ pc' = "loop"
    /\ UNCHANGED <<process, disk, currentLinks, savedData, prior, newLinks,
                   removedLinks, idx, last, withText, failedNow, acceptedNow,
                   err, trial, sched>>

\* lemmyPart posting in test mode too.
lemmyPart_IgnoresTestMode(c, it, link, ok) ==
    IF ~lemmyConfigured(c)
    THEN [calls |-> <<>>, success |-> TRUE]
    ELSE IF jwt # ""
    THEN [calls |-> <<[Call("lemmyCreatePost", it, link, jwt, ok)
                          EXCEPT !.id = communityID]>>,
          success |-> ok]
    ELSE [calls |-> <<>>, success |-> FALSE]

\* lemmyPart making no post without a community id.
lemmyPart_NeedsCommunity(c, it, link, ok) ==
    IF ~lemmyConfigured(c) \/ testMode
    THEN [calls |-> <<>>, success |-> TRUE]
    ELSE IF jwt # "" /\ communityID # 0
    THEN [calls |-> <<[Call("lemmyCreatePost", it, link, jwt, ok)
                          EXCEPT !.id = communityID]>>,
          success |-> ok]
    ELSE [calls |-> <<>>, success |-> FALSE]

\* Lines 1286-1325: the Lemmy post of one link.
lemmyPart(c, it, link, ok) ==
    IF ~lemmyConfigured(c) \/ testMode
    THEN [calls |-> <<>>, success |-> TRUE]
    ELSE IF jwt # ""
    THEN [calls |-> <<[Call("lemmyCreatePost", it, link, jwt, ok)
                          EXCEPT !.id = communityID]>>,
          success |-> ok]
    ELSE [calls |-> <<>>, success |-> FALSE]

\* mastodonNeedsLogin asking for a token whether the stored one expired or not.
mastodonNeedsLogin_IgnoresExpiry(c, tok) ==
    tok = "" \/ c.MastodonToken # ""

\* Line 1331: a Mastodon token is fetched when the access token is empty or
\* the stored token is set and expired ...
mastodonNeedsLogin(c, tok) ==
    tok = "" \/ (c.MastodonToken # "" /\ c.MastodonTokenExpired)

\* ... line 1332: and all four login fields are set.
mastodonCanLogin(c) ==
    /\ c.MastodonUsername /\ c.MastodonPassword
    /\ c.MastodonClientID /\ c.MastodonClientSecret

\* Lines 1327-1384: the Mastodon post of one link, with the token handling.
mastodonPart(c, it, link, login, ok) ==
    IF ~mastodonConfigured(c)
    THEN [cfg |-> c, calls |-> <<>>, success |-> TRUE]
    ELSE
      LET doLogin == mastodonNeedsLogin(c, c.MastodonAccessToken)
                       /\ mastodonCanLogin(c)
          gotTok  == doLogin /\ login # "err"
          newTok  == IF login = "empty" THEN "" ELSE "mtokNew"
          tok     == IF gotTok THEN newTok ELSE c.MastodonAccessToken
          c1      == IF gotTok
                     THEN [c EXCEPT !.MastodonToken = newTok,
                                    !.MastodonTokenExpired = (login # "lasting")]
                     ELSE c
          logins  == IF doLogin
                     THEN <<Call("mastodonLogin", it, link, "", login # "err")>>
                     ELSE <<>>
          loginOK == ~(doLogin /\ login = "err")
      IN  IF tok = ""
          THEN [cfg |-> c1, calls |-> logins, success |-> FALSE]
          ELSE IF ~testMode
          THEN [cfg |-> c1,
                calls |-> logins \o
                    <<Call("mastodonCreatePost", it, link, tok, ok)>>,
                success |-> loginOK /\ ok]
          ELSE [cfg |-> c1, calls |-> logins, success |-> loginOK]

\* Line 1386: the link is a failed one when a configured platform failed.
linkFailed(c, lemmySuccess, mastodonSuccess) ==
    \/ lemmyConfigured(c) /\ ~lemmySuccess
    \/ mastodonConfigured(c) /\ ~mastodonSuccess

\* markFor without the check that a platform is configured at all.
markFor_NoPlatformCheck(c, lemmySuccess, mastodonSuccess) ==
    IF linkFailed(c, lemmySuccess, mastodonSuccess) THEN "FailedLinks"
    ELSE "Links"

\* markFor keeping every link for the next cycle.
markFor_AlwaysFailed(c, lemmySuccess, mastodonSuccess) == "FailedLinks"

\* Lines 1276-1280 and 1386-1392: the list a link with a text is appended to.
\* Without any configured platform it is FailedLinks.
markFor(c, lemmySuccess, mastodonSuccess) ==
    IF ~lemmyConfigured(c) /\ ~mastodonConfigured(c) THEN "FailedLinks"
    ELSE IF linkFailed(c, lemmySuccess, mastodonSuccess) THEN "FailedLinks"
    ELSE "Links"

\* Every configured platform took the post of the link: each one's
\* post-creation call (lines 1297, 1359) was made and returned no error.
acceptedByAll(c, made) ==
    /\ lemmyConfigured(c) \/ mastodonConfigured(c)
    /\ lemmyConfigured(c) =>
         \E i \in 1..Len(made) : made[i].op = "lemmyCreatePost" /\ made[i].ok
    /\ mastodonConfigured(c) =>
         \E i \in 1..Len(made) : made[i].op = "mastodonCreatePost" /\ made[i].ok

\* platformCalls with the Mastodon block ahead of the Lemmy block.
platformCalls_MastodonFirst(lemmyCalls, mastodonCalls) ==
    mastodonCalls \o lemmyCalls

\* Lines 1286-1384: the Lemmy block runs to its end, then the Mastodon
\* block, whatever the Lemmy block's outcome.
platformCalls(lemmyCalls, mastodonCalls) == lemmyCalls \o mastodonCalls

\* Lines 1240-1396: one iteration of the loop over newLinks.  Without a
\* configured platform lemmyPart and mastodonPart make no call (the code
\* leaves the iteration before them, line 1279).
CheckLink ==
    /\ pc = "loop"
    /\ idx <= Len(newLinks)
    /\ \E excerpt \in Excerpts, lemmyOK \in BOOLEAN,
          login \in MastodonLoginResults, mastodonOK \in BOOLEAN :
        LET link == newLinks[idx]
            l    == lemmyPart(cfg, idx, link, lemmyOK)
            m    == mastodonPart(cfg, idx, link, login, mastodonOK)
            made == platformCalls(l.calls, m.calls)
            bad  == \/ lemmyConfigured(cfg) /\ ~l.success
                    \/ mastodonConfigured(cfg) /\ ~m.success
            mark == markFor(cfg, l.success, m.success)
        IN  IF excerpt # "text"
            THEN \* lines 1251-1260 and 1393-1395: nothing is recorded
                 /\ last' = Iteration(link, excerpt, TRUE, TRUE, "none")
                 /\ calls' = <<>>
                 /\ UNCHANGED <<cfg, savedData, withText, failedNow,
                                acceptedNow>>
            ELSE /\ cfg' = m.cfg
                 /\ calls' = made
                 /\ last' = Iteration(link, excerpt, l.success, m.success, mark)
                 /\ withText' = withText \cup {link}
                 /\ failedNow' = IF bad THEN failedNow \cup {link}
                                 ELSE failedNow
                 /\ acceptedNow' =
                        IF acceptedByAll(cfg, made)
                        THEN acceptedNow \cup {link}
                        ELSE acceptedNow
                 /\ savedData' =
                        IF mark = "FailedLinks"
                        THEN [savedData EXCEPT !.FailedLinks = Append(@, link)]
                        ELSE [savedData EXCEPT !.Links = Append(@, link)]
    /\ idx' = idx + 1
    /\ pc' = IF idx' > Len(newLinks) THEN "save" ELSE "loop"
    /\ UNCHANGED <<process, disk, currentLinks, prior, newLinks,
                   removedLinks, jwt, communityID, err, trial, sched>>

\* dropRemoved never cutting the saved links down.
dropRemoved_KeepsAll(links) == links

\* Lines 1399-1418: when links were removed from the page, the saved links
\* are cut down to the observed ones.
dropRemoved(links) ==
    IF Len(removedLinks) > 0
    THEN SelectSeq(links, LAMBDA l : l \in Range(currentLinks))
    ELSE links

\* Lines 1399-1439: removed links dropped, link data saved, config saved.
\* saveLinkData can fail (error return, config not saved); a failing
\* saveConfig is only logged.
CheckSave ==
    /\ pc = "save"
    /\ savedData' = [savedData EXCEPT !.Links = dropRemoved(@)]
    /\ \/ /\ err' = TRUE
          /\ UNCHANGED disk
       \/ /\ err' = FALSE
          /\ dataFile' = [exists |-> TRUE, Links |-> savedData'.Links,
                          FailedLinks |-> savedData'.FailedLinks]
          /\ \/ configFile' = cfg
             \/ configFile' = configFile
    /\ pc' = "returned"
    /\ UNCHANGED <<process, cfg, currentLinks, prior, newLinks, removedLinks,
                   jwt, communityID, idx, calls, last, withText, failedNow,
                   acceptedNow, trial, sched>>

\* ------------------------------------------------ main / runMonitoring
\* The passing of time: a token expiry that lay in the future may have
\* passed.
Aged(c) ==
    {[c EXCEPT !.LemmyTokenFresh = lf, !.MastodonTokenExpired = me] :
        lf \in {c.LemmyTokenFresh, FALSE}, me \in {c.MastodonTokenExpired, TRUE}}

\* Return ending the process on any error of checkWebsite.
Return_FatalOnError ==
    /\ pc = "returned"
    /\ pc' = IF err THEN "fatal" ELSE IF loopMode THEN "wait" ELSE "exit"
    /\ EnterCheckWebsite(config)
    /\ UNCHANGED <<process, disk, trial>>

\* checkWebsite has returned.  runMonitoring (lines 1449-1452, 1464-1467)
\* logs an error and waits; main (lines 1753-1757) ends, by log.Fatalf on
\* an error.
Return ==
    /\ pc = "returned"
    /\ pc' = IF loopMode THEN "wait" ELSE IF err THEN "fatal" ELSE "exit"
    /\ EnterCheckWebsite(config)
    /\ UNCHANGED <<process, disk, trial>>

Returned == Return /\ UNCHANGED sched

\* Wake starting the next check whatever checkWebsite is doing.
Wake_Preempting ==
    /\ pc \in {"wait", "fetch", "auth", "loop", "save"}
    /\ config' \in Aged(config)
    /\ pc' = "fetch"
    /\ EnterCheckWebsite(config')
    /\ UNCHANGED <<testMode, loopMode, disk, trial>>

\* runMonitoring, lines 1458-1464: the select receives from ticker.C and the
\* next check starts.  The select is reached only after checkWebsite has
\* returned: both run on the one goroutine of runMonitoring.
Wake ==
    /\ pc = "wait"
    /\ config' \in Aged(config)
    /\ pc' = "fetch"
    /\ EnterCheckWebsite(config')
    /\ UNCHANGED <<testMode, loopMode, disk, trial>>

\* The ticker fires at some time while runMonitoring waits.
Tick == Wake /\ UNCHANGED sched

Next ==
    \/ Main
    \/ CheckAbort
    \/ CheckFetch
    \/ CheckAuth
    \/ CheckLink
    \/ CheckSave
    \/ Returned
    \/ Tick

Spec == Init /\ [][Next]_vars

\* ------------------------------------------------------------ typing
TypeOK ==
    /\ testMode \in BOOLEAN /\ loopMode \in BOOLEAN /\ err \in BOOLEAN
    /\ pc \in {"main", "fetch", "auth", "loop", "save", "returned", "wait",
               "exit", "fatal", "killed", "hung"}
    /\ Range(currentLinks) \subseteq AllLinks
    /\ Range(newLinks) \subseteq AllLinks
    /\ Len(savedData.Links) + Len(savedData.FailedLinks) <= MaxLen
    /\ Len(dataFile.Links) + Len(dataFile.FailedLinks) <= MaxLen
    /\ idx \in 1..(Len(newLinks) + 1)
    /\ failedNow \subseteq withText /\ acceptedNow \subseteq withText
    /\ withText \subseteq Range(newLinks)
    /\ communityID \in {0, 1}

\* ------------------------------------------- the same page, three times
\* checkWebsite run three times in a row by runMonitoring on a page that does
\* not change, from any saved link data, with every excerpt non-empty and no
\* call failing for a configured platform.
\* The link lists a data file can hold.
SavedLists == SeqsUpTo(MaxLen)

InitConv ==
    /\ testMode \in BOOLEAN
    /\ loopMode = TRUE
    /\ config \in Configs
    /\ configFile = config
    /\ \E ls \in SavedLists, fs \in SavedLists :
          /\ Len(ls) + Len(fs) <= MaxLen
          /\ dataFile = [exists |-> TRUE, Links |-> ls, FailedLinks |-> fs]
    /\ \E obs \in ObservedLists : trial = [page |-> obs, round |-> 0]
    /\ sched = NoSched
    /\ pc = "main"
    /\ NoFrame

\* The page is the one of the experiment; round counts the cycles begun.
ConvFetch ==
    /\ trial.round < 3
    /\ Fetch({trial.page})
    /\ trial' = [trial EXCEPT !.round = @ + 1]
    /\ UNCHANGED sched

\* The login of a configured Lemmy gives a token.
ConvAuth == CheckAuth /\ (lemmyConfigured(cfg) => jwt' # "")

\* The excerpt is there and no platform call fails.
ConvLink ==
    /\ CheckLink
    /\ last'.excerpt = "text"
    /\ last'.lemmySuccess /\ last'.mastodonSuccess
    /\ \A i \in 1..Len(calls') : calls'[i].ok

\* The link data is saved.
ConvSave == CheckSave /\ ~err'

NextConv ==
    \/ Main
    \/ ConvFetch
    \/ ConvAuth
    \/ ConvLink
    \/ ConvSave
    \/ Returned
    \/ Tick

SpecConv == InitConv /\ [][NextConv]_vars

\* ------------------------------------- monitoring with a short interval
\* runMonitoring with a check interval so short that no token expiry passes
\* between one check and the next.
TickSoon == Tick /\ config' = config

InitSoon == Init /\ loopMode

NextSoon ==
    \/ Main
    \/ CheckAbort
    \/ CheckFetch
    \/ CheckAuth
    \/ CheckLink
    \/ CheckSave
    \/ Returned
    \/ TickSoon

SpecSoon == InitSoon /\ [][NextSoon]_vars

\* ------------------------------------------- one run, any configuration
\* A single-shot run (no -loop, no -test) on a page of one or two links, from
\* any config.json: every field the platform code tests is set or not,
\* independently (username with password, client id with client secret).
LemmyTokens == {<<"", FALSE>>, <<"jwtCached", TRUE>>, <<"jwtCached", FALSE>>}

MastodonTokens == {<<"", TRUE>>, <<"mtok", TRUE>>, <<"mtok", FALSE>>}

ConfigSpace ==
    {ConfigOf(ls, lc, lu, lu, lt[1], lt[2], ms, ma, mu, mu, mi, mi, mt[1], mt[2]) :
        ls \in BOOLEAN, lc \in BOOLEAN, lu \in BOOLEAN, lt \in LemmyTokens,
        ms \in BOOLEAN, ma \in {"", "acc"}, mu \in BOOLEAN, mi \in BOOLEAN,
        mt \in MastodonTokens}

InitCfg ==
    /\ trial = NoTrial
    /\ sched = NoSched
    /\ testMode = FALSE
    /\ loopMode = FALSE
    /\ config \in ConfigSpace
    /\ configFile = config
    /\ dataFile = [exists |-> FALSE, Links |-> <<>>, FailedLinks |-> <<>>]
    /\ pc = "main"
    /\ NoFrame

\* The page lists one link, or two.
CfgFetch == Fetch({<<"a">>, <<"a", "b">>}) /\ UNCHANGED <<trial, sched>>

NextCfg ==
    \/ Main
    \/ CheckAbort
    \/ CfgFetch
    \/ CheckAuth
    \/ CheckLink
    \/ CheckSave
    \/ Returned

SpecCfg == InitCfg /\ [][NextCfg]_vars

\* ------------------------------------------- the ticker and the signals
\* runMonitoring in loop mode with its time.Ticker, the signals the process
\* can get and the network calls that have no timeout.
\* sched.ticker is "none" before time.NewTicker (line 1455), "empty" when
\* ticker.C holds no tick, "early" when it holds a tick that fired while a
\* check was running, "due" when it holds one that fired while runMonitoring
\* was waiting.  ticker.C has room for one tick; a tick that finds it full is
\* dropped.
Running == pc \in {"fetch", "auth", "loop", "save"}

InitSched == Init /\ loopMode /\ ~testMode

\* The page lists nothing, one link, or two.
SchedFetch ==
    Fetch({<<>>, <<"a">>, <<"a", "b">>}) /\ UNCHANGED <<trial, sched>>

\* Lines 1449-1455: the first check has returned, the ticker is created;
\* lines 1464-1467: a later check has returned, back to the select.
SchedReturned ==
    /\ Return
    /\ sched' = [sched EXCEPT !.ticker = IF @ = "none" THEN "empty" ELSE @]

\* The runtime's timer sends a tick on ticker.C.
TimerFires ==
    /\ sched.ticker = "empty"
    /\ Running \/ pc \in {"returned", "wait"}
    /\ sched' = [sched EXCEPT !.ticker = IF Running THEN "early" ELSE "due"]
    /\ UNCHANGED <<process, disk, pc, frame, trial>>

\* Lines 1458-1464: the select takes the tick out of ticker.C.
SchedTick ==
    /\ Wake
    /\ sched.ticker \in {"early", "due"}
    /\ sched' = [sched EXCEPT !.ticker = "empty"]

\* SIGINT or SIGTERM is delivered.  signal.Notify is commented out (line
\* 1739), so the signal has its default disposition: the process ends where
\* it stands, and cancel() (line 1743) is never called.
Signal ==
    /\ pc \in {"fetch", "auth", "loop", "save", "returned", "wait"}
    /\ pc' = "killed"
    /\ sched' = [sched EXCEPT !.signalled = TRUE]
    /\ UNCHANGED <<process, disk, frame, trial>>

\* A platform call of the step at hand never returns: lemmyLogin (http.Post,
\* line 1479), lemmyGetCommunityID, lemmyCreatePost, mastodonCreatePost
\* (&http.Client{}, lines 1505, 1542, 1604) and mastodonLogin (http.PostForm,
\* line 1573) set no timeout.  The step at "auth" always makes a call; the
\* step at "loop" makes one for a link with a text when lemmyPart or
\* mastodonPart has a call to make.
Hang ==
    /\ \/ pc = "auth"
       \/ /\ pc = "loop"
          /\ idx <= Len(newLinks)
          /\ lemmyPart(cfg, idx, newLinks[idx], TRUE).calls
               \o mastodonPart(cfg, idx, newLinks[idx], "lasting", TRUE).calls
               # <<>>
    /\ pc' = "hung"
    /\ UNCHANGED <<process, disk, frame, trial, sched>>

NextSched ==
    \/ Main
    \/ CheckAbort
    \/ SchedFetch
    \/ CheckAuth
    \/ CheckLink
    \/ CheckSave
    \/ SchedReturned
    \/ TimerFires
    \/ SchedTick
    \/ Signal
    \/ Hang

SpecSched == InitSched /\ [][NextSched]_vars

\* ------------------------------------------- runMonitoring, cancelled
\* runMonitoring in loop mode under a caller that cancels its context: the
\* cancel() of line 1743, which runs once the goroutine of lines 1737-1743
\* has received from sigChan.  (In main as it is built nothing sends on
\* sigChan, line 1739; this specification is about runMonitoring's select.)
InitCancel == Init /\ loopMode /\ ~testMode

\* The page lists nothing, or one link.
CancelFetch == Fetch({<<>>, <<"a">>}) /\ UNCHANGED <<trial, sched>>

\* Line 1743: cancel() closes ctx.Done(), at any time.
Cancel ==
    /\ ~sched.cancelled
    /\ Running \/ pc \in {"returned", "wait"}
    /\ sched' = [sched EXCEPT !.cancelled = TRUE]
    /\ UNCHANGED <<process, disk, pc, frame, trial>>

\* Lines 1459-1462: the select takes the case ctx.Done(); runMonitoring
\* returns nil and main ends.
Done ==
    /\ pc = "wait"
    /\ sched.cancelled
    /\ pc' = "exit"
    /\ UNCHANGED <<process, disk, frame, trial, sched>>

\* The select of lines 1459-1463 with both ctx.Done() and ticker.C ready
\* takes either case (Go chooses among the ready cases at random): SchedTick
\* has no guard on sched.cancelled.
NextCancel ==
    \/ Main
    \/ CheckAbort
    \/ CancelFetch
    \/ CheckAuth
    \/ CheckLink
    \/ CheckSave
    \/ SchedReturned
    \/ TimerFires
    \/ SchedTick
    \/ Cancel
    \/ Done

SpecCancel == InitCancel /\ [][NextCancel]_vars

\* ------------------------------------------------ a link that stays
\* runMonitoring in continuous mode, not in test mode, with a platform
\* configured, on a page that lists the link "a" in every cycle.  Every call
\* and every file operation can fail or succeed; the goroutine keeps running
\* and the ticker keeps firing.
InitDeliver ==
    /\ Init
    /\ loopMode /\ ~testMode
    /\ lemmyConfigured(config) \/ mastodonConfigured(config)

\* The page lists "a", alone or with "b".
DeliverFetch ==
    Fetch({<<"a">>, <<"a", "b">>, <<"b", "a">>}) /\ UNCHANGED <<trial, sched>>

NextDeliver ==
    \/ Main
    \/ CheckAbort
    \/ DeliverFetch
    \/ CheckAuth
    \/ CheckLink
    \/ CheckSave
    \/ Returned
    \/ Tick

SpecDeliver == InitDeliver /\ [][NextDeliver]_vars /\ WF_vars(NextDeliver)

\* ================================================================ claims
\* A cycle that ran to its end and saved the link data.
CycleDone == pc = "returned" /\ ~err

\* published and pending as the cycle leaves them.
Published == Range(savedData.Links)
Pending   == Range(savedData.FailedLinks)

\* The post-creation endpoints.
PostOps == {"lemmyCreatePost", "mastodonCreatePost"}

\* The links a post-creation call of the latest step was made for.
PostedLinks == {calls[i].link : i \in {j \in 1..Len(calls) : calls[j].op \in PostOps}}

\* Neither platform is configured (the tests of lines 1273-1274, negated).
NoPlatform(c) ==
    /\ ~(c.LemmyServer /\ c.LemmyCommunity /\ c.LemmyUsername /\ c.LemmyPassword)
    /\ ~(c.MastodonServer /\ c.MastodonAccessToken # "")

\* C1: after every completed cycle that started from disjoint published and
\* pending lists, no link is in both published and pending.
C1_PublishedPendingDisjoint ==
    (CycleDone /\ Range(prior.Links) \cap Range(prior.FailedLinks) = {})
        => Published \cap Pending = {}

\* C2: a link that is in published at the start of a cycle and is still on
\* the page is not posted to any platform in that cycle (and so in no cycle
\* in which it stays on the page).
C2_PublishedNotResubmitted ==
    \A l \in PostedLinks :
        ~(l \in Range(prior.Links) /\ l \in Range(currentLinks))

\* C3: outside dry-run, a link with a text for which a configured platform
\* failed in the cycle is in pending and not in published at the end of the
\* cycle.
C3_PartialFailureIsPending ==
    (CycleDone /\ ~testMode)
        => \A l \in failedNow : l \in Pending /\ l \notin Published

\* C4: outside dry-run, an observed link with a text that every configured
\* platform accepted in the cycle is in published and not in pending at the
\* end of the cycle.
C4_AcceptedIsPublished ==
    (CycleDone /\ ~testMode)
        => \A l \in acceptedNow \cap Range(currentLinks) :
               l \in Published /\ l \notin Pending

\* C5: every link that is in the saved pending list when a cycle loads it is
\* in that cycle's toPublish (newLinks), on the page or not.
C5_PendingIsRetried ==
    pc \in {"auth", "loop", "save"}
        => Range(dataFile.FailedLinks) \subseteq Range(newLinks)

\* C5 happens: a cycle is posting, and a link of the saved pending list that
\* is no longer on the page is in newLinks.
C5_Witness ==
    /\ pc = "loop"
    /\ \E l \in Range(dataFile.FailedLinks) :
           l \notin Range(currentLinks) /\ l \in Range(newLinks)

\* C6: a link that is in pending at the start of a cycle and not in published
\* after it is in pending after it or in toPublish of the next cycle,
\* whatever the page then shows.
C6_FailingLinkRetriedNextCycle ==
    CycleDone =>
        \A l \in Range(prior.FailedLinks) \ Published :
            \/ l \in Pending
            \/ \A obs \in ObservedLists :
                  l \in Range(findNewLinks(obs, dataFile.Links,
                                           dataFile.FailedLinks))

\* C7: a dry-run cycle leaves no link in published that was not there before.
C7_DryRunPublishesNothing ==
    (CycleDone /\ testMode) => Published \subseteq Range(prior.Links)

\* C8: in dry-run no post-creation endpoint is called.
C8_DryRunCallsNoPostEndpoint ==
    testMode => \A i \in 1..Len(calls) : calls[i].op \notin PostOps

\* C8 happens: a dry-run iteration went through the platform code of a link
\* with a text, with a platform configured.
C8_Witness ==
    /\ testMode
    /\ pc \in {"loop", "save"}
    /\ last.excerpt = "text"
    /\ ~NoPlatform(cfg)
    /\ jwt # ""

\* C9: without a configured platform no link is added to published, in any
\* cycle: the list of the cycle holds no link more often than the loaded one,
\* and the saved list stays empty.
C9_NoPlatformNeverPublishes ==
    (pc # "main" /\ NoPlatform(cfg))
        => /\ \A l \in AllLinks :
                 Count(savedData.Links, l) <= Count(prior.Links, l)
           /\ dataFile.Links = <<>>

\* C9 happens: without a platform, a later cycle retried a link with a text
\* and ended.
C9_Witness ==
    /\ CycleDone
    /\ NoPlatform(cfg)
    /\ prior.FailedLinks # <<>>
    /\ withText # {}

\* C10 as stated: without a configured platform every link of toPublish is in
\* pending at the end of the cycle, whatever its excerpt, and no post is
\* attempted.
C10_NoPlatformAllPending ==
    NoPlatform(cfg)
        => /\ PostedLinks = {}
           /\ CycleDone => Range(newLinks) \subseteq Pending

\* C10 amended: without a configured platform every link of toPublish whose
\* excerpt came out non-empty is in pending at the end of the cycle, and no
\* post is attempted.
C10_NoPlatformTextLinksPending ==
    NoPlatform(cfg)
        => /\ PostedLinks = {}
           /\ CycleDone => withText \subseteq Pending

\* C10 happens: without a platform a cycle ended that had a link with a text
\* and a link without one.
C10_Witness ==
    /\ CycleDone
    /\ NoPlatform(cfg)
    /\ withText # {}
    /\ Range(newLinks) \ withText # {}

\* The number of the cycle the experiment is in (0 before the first).
Cycle == trial.round

\* C11 as stated: on an unchanging page O, from any saved state, with every
\* excerpt non-empty and every configured platform accepting, after the
\* second cycle published = O and pending is empty, and the third cycle makes
\* no platform call and changes neither list.
C11_Convergence ==
    /\ (Cycle >= 2 /\ CycleDone)
          => Published = Range(trial.page) /\ Pending = {}
    /\ Cycle >= 3
          => /\ calls = <<>>
             /\ CycleDone => /\ savedData.Links = prior.Links
                             /\ savedData.FailedLinks = prior.FailedLinks

\* C11 amended: the same, when at least one platform is configured.
C11_ConvergenceWithPlatform ==
    ~NoPlatform(cfg) => C11_Convergence

\* C11 happens: the third cycle on a non-empty page ended, not a dry-run,
\* with a platform configured.
C11_Witness ==
    /\ Cycle = 3
    /\ CycleDone
    /\ ~NoPlatform(cfg)
    /\ ~testMode
    /\ trial.page # <<>>
    /\ Published = Range(trial.page)

\* C12: a link of toPublish whose detail page cannot be fetched, whose
\* extraction fails or whose text is empty is in neither published nor pending
\* at the end of the cycle, and no platform call is made for it.
C12_SkippedLinkInNeitherList ==
    /\ CycleDone
          => \A l \in Range(newLinks) \ withText :
                 l \notin Published /\ l \notin Pending
    /\ (pc \in {"loop", "save"} /\ last.excerpt \in Excerpts \ {"text"})
          => calls = <<>>

\* No link occurs twice in s.
DuplicateFree(s) == \A l \in Range(s) : Count(s, l) = 1

\* C13: at the end of every completed cycle the saved published list holds
\* only links that the cycle observed on the page.
C13_PublishedWithinObserved ==
    CycleDone => Range(dataFile.Links) \subseteq Range(currentLinks)

\* C14: a completed cycle that started from duplicate-free lists saves
\* duplicate-free published and pending lists.
C14_SavedListsDuplicateFree ==
    (CycleDone /\ DuplicateFree(prior.Links) /\ DuplicateFree(prior.FailedLinks))
        => DuplicateFree(dataFile.Links) /\ DuplicateFree(dataFile.FailedLinks)

\* The latest iteration treated Lemmy as a configured platform: it posted to
\* it or counted its post as failed.
TreatedLemmy ==
    \/ \E i \in 1..Len(calls) : calls[i].op = "lemmyCreatePost"
    \/ ~last.lemmySuccess

\* The latest iteration treated Mastodon as a configured platform.
TreatedMastodon ==
    \/ \E i \in 1..Len(calls) : calls[i].op = "mastodonCreatePost"
    \/ ~last.mastodonSuccess

\* C15: Lemmy is treated as configured iff server and community are set and
\* either username and password are set or a token is stored; Mastodon iff the
\* server is set and either an access token is set or client id, client
\* secret, username and password are all set.
C15_ConfiguredPredicate ==
    (pc \in {"loop", "save"} /\ last.excerpt = "text" /\ ~testMode)
        => /\ TreatedLemmy <=>
                /\ cfg.LemmyServer /\ cfg.LemmyCommunity
                /\ \/ cfg.LemmyUsername /\ cfg.LemmyPassword
                   \/ cfg.LemmyToken # ""
           /\ TreatedMastodon <=>
                /\ cfg.MastodonServer
                /\ \/ cfg.MastodonAccessToken # ""
                   \/ /\ cfg.MastodonClientID /\ cfg.MastodonClientSecret
                      /\ cfg.MastodonUsername /\ cfg.MastodonPassword

\* The calls of a step that are calls of op.
CallsOf(made, op) == {i \in 1..Len(made) : made[i].op = op}

\* C16: a cycle that starts with a stored Lemmy token whose expiry lies in
\* the future makes no lemmyLogin call, and an iteration that finds the
\* stored Mastodon token's expiry in the future makes no mastodonLogin call.
C16_FreshTokenNoLogin ==
    /\ []((config.LemmyToken # "" /\ config.LemmyTokenFresh)
             => CallsOf(calls, "lemmyLogin") = {})
    /\ [][(pc = "loop" /\ ~cfg.MastodonTokenExpired)
             => CallsOf(calls', "mastodonLogin") = {}]_vars

\* C16 happens: with both tokens stored and unexpired, and the Mastodon login
\* fields set, a link was posted to both platforms without any login.
C16_Witness ==
    /\ pc \in {"loop", "save"}
    /\ last.excerpt = "text"
    /\ config.LemmyToken # "" /\ config.LemmyTokenFresh
    /\ jwt = config.LemmyToken
    /\ mastodonCanLogin(cfg)
    /\ cfg.MastodonToken # "" /\ ~cfg.MastodonTokenExpired
    /\ CallsOf(calls, "lemmyCreatePost") # {}
    /\ CallsOf(calls, "mastodonCreatePost") # {}
    /\ CallsOf(calls, "mastodonLogin") = {}

\* C17: a stored token whose expiry lies in the past triggers exactly one
\* login per cycle for its platform: one lemmyLogin before the loop, and
\* never a mastodonLogin in two iterations of the same cycle.
C17_ExpiredTokenOneLogin ==
    /\ []((pc = "loop" /\ idx = 1 /\ config.LemmyToken # ""
              /\ ~config.LemmyTokenFresh)
             => Cardinality(CallsOf(calls, "lemmyLogin")) = 1)
    /\ []((pc \in {"loop", "save"} /\ idx > 1)
             => CallsOf(calls, "lemmyLogin") = {})
    /\ [][~(/\ pc = "loop"
            /\ CallsOf(calls, "mastodonLogin") # {}
            /\ CallsOf(calls', "mastodonLogin") # {})]_vars

\* C18: in continuous mode a Lemmy token obtained by a successful login (and
\* saved to config.json) is reused while it has not expired: a later cycle of
\* the same process makes no lemmyLogin call.
C18_RefreshedTokenReused ==
    (loopMode /\ configFile.LemmyToken = "jwtNew" /\ configFile.LemmyTokenFresh)
        => CallsOf(calls, "lemmyLogin") = {}

\* C19: in a cycle that is not a dry-run, with Lemmy configured and no Lemmy
\* token obtained (login failed or gave an empty token), no lemmyCreatePost
\* call is made, and every link with a text processed in the cycle is in
\* pending and not in published at its end.
C19_LemmyLoginFailureFailsAll ==
    (~testMode /\ lemmyConfigured(cfg) /\ jwt = "" /\ pc \in {"loop", "save", "returned"})
        => /\ CallsOf(calls, "lemmyCreatePost") = {}
           /\ CycleDone => withText \subseteq Pending \ Published

\* C20: no error of a cycle ends the process: when checkWebsite has returned,
\* the process does not exit by log.Fatalf.
C20_CycleErrorNotFatal ==
    [][pc = "returned" => pc' # "fatal"]_vars

\* C21: cycles never overlap.  A cycle begins only out of main's first call
\* or out of the wait of runMonitoring, which is reached only after
\* checkWebsite has returned with its saves made; a tick that arrives while a
\* cycle is in progress changes nothing of that cycle or of the files.
C21_CyclesNeverOverlap ==
    [][/\ (pc' = "fetch" /\ pc # "fetch") => pc \in {"main", "wait"}
       /\ (Running /\ sched'.ticker # sched.ticker)
            => (pc' = pc /\ frame' = frame /\ disk' = disk)]_vars

\* A tick fired while a cycle was in progress, and the cycle ran to its end
\* and saved.
C21_Witness == CycleDone /\ sched.ticker = "early"

\* C22: once a shutdown signal has been delivered the monitoring context is
\* cancelled, and the process was not ended in the middle of its work.
C22_SignalCancelsContext ==
    sched.signalled => (sched.cancelled /\ pc # "killed")

\* C23: the cycle that follows a wait is started by a tick that fired during
\* the wait, never by one left over from the time the previous cycle ran.
C23_NoCatchUpRun ==
    [][(pc = "wait" /\ pc' = "fetch") => sched.ticker = "due"]_vars

\* C24: no network call of a cycle stays unanswered for ever.
C24_EveryCallReturns == pc # "hung"

\* The cycle has ended with its link data saved, the excerpt of "a" was
\* obtained, and every configured platform took each post of "a".
GoodCycle ==
    /\ CycleDone
    /\ "a" \in acceptedNow /\ "a" \notin failedNow

\* "a" is in the published links on disk and not in the pending ones.
Delivered ==
    /\ dataFile.exists
    /\ "a" \in Range(dataFile.Links)
    /\ "a" \notin Range(dataFile.FailedLinks)

C26_AbsentFileIsEmptyState ==
    (pc \in {"auth", "loop", "save"} /\ ~dataFile.exists)
        => (prior = EmptyLinkData /\ newLinks = currentLinks /\ ~err)

\* The loop runs over the observed links of a first cycle.
C26_Witness ==
    /\ pc = "loop" /\ ~dataFile.exists
    /\ Len(currentLinks) = 2 /\ newLinks = currentLinks

\* A token was refreshed in this cycle: the cycle's configuration holds a
\* token other than the one checkWebsite was called with.
Refreshed ==
    \/ cfg.LemmyToken # config.LemmyToken
    \/ cfg.MastodonToken # config.MastodonToken

\* C27: a cycle that refreshed a token and then failed has all the same
\* written the new token to the configuration file by its end.
C27_RefreshPersistedDespiteFailure ==
    (pc = "returned" /\ err /\ Refreshed)
        => /\ configFile.LemmyToken = cfg.LemmyToken
           /\ configFile.MastodonToken = cfg.MastodonToken

\* C28: within one cycle no link is submitted again to the platforms that
\* have all accepted it already in this cycle, when neither the page nor the
\* stored pending list names a link twice.
C28_SubmittedAtMostOnce ==
    [][(/\ pc = "loop"
        /\ DuplicateFree(currentLinks)
        /\ DuplicateFree(prior.FailedLinks))
          => PostedLinks' \cap acceptedNow = {}]_vars

\* C29: findNewLinks returns the links of (observed minus published) union
\* pending: first the observed links that are not published, in page order,
\* then the pending links in their stored order.
C29_FindNewLinksResult ==
    pc \in {"auth", "loop", "save"} =>
        LET k == Len(newLinks) - Len(prior.FailedLinks)
        IN  /\ Range(newLinks) = (Range(currentLinks) \ Range(prior.Links))
                                    \cup Range(prior.FailedLinks)
            /\ k >= 0
            /\ \A i \in 1..Len(prior.FailedLinks) :
                    newLinks[k + i] = prior.FailedLinks[i]
            /\ \A i \in 1..k : newLinks[i] \notin Range(prior.Links)
            /\ \E f \in [1..k -> 1..Len(currentLinks)] :
                    /\ \A i \in 1..k : currentLinks[f[i]] = newLinks[i]
                    /\ \A i, j \in 1..k : i < j => f[i] < f[j]

\* A new link ahead of a pending one that is a different link.
C29_Witness ==
    /\ pc = "loop"
    /\ prior.FailedLinks # <<>>
    /\ Len(newLinks) > Len(prior.FailedLinks)
    /\ newLinks[1] # newLinks[Len(newLinks)]

\* C30: after a completed cycle that had links to post and a configured
\* platform, every pending link is one that failed in this cycle, and the
\* pending list is no longer than the list of links to post.
C30_PendingRebuilt ==
    (CycleDone /\ newLinks # <<>> /\ ~NoPlatform(cfg))
        => /\ Pending \subseteq failedNow
           /\ Pending \subseteq Range(newLinks)
           /\ Len(savedData.FailedLinks) <= Len(newLinks)

\* A link that was pending before the cycle is not pending after it, while
\* another link failed in the cycle.
C30_Witness ==
    /\ CycleDone /\ ~NoPlatform(cfg)
    /\ Pending # {}
    /\ \E l \in Range(prior.FailedLinks) : l \notin Pending

\* C31: once mastodonLogin has given a token in this cycle (and the token has
\* not expired), every mastodonCreatePost call of the latest iteration was
\* made with that token.
C31_RefreshedTokenUsed ==
    (pc \in {"loop", "save"} /\ cfg.MastodonToken = "mtokNew"
        /\ ~cfg.MastodonTokenExpired)
        => \A i \in CallsOf(calls, "mastodonCreatePost") :
               calls[i].tok = "mtokNew"

\* C32: for a link with a text and a Mastodon server set, mastodonLogin is
\* called iff the stored token has expired and the four login fields are set;
\* and when there is no access token and no login to get one, no
\* mastodonCreatePost call is made and Mastodon counts as failed for the link.
C32_MastodonRefreshRule ==
    [][(pc = "loop" /\ last'.excerpt = "text" /\ cfg.MastodonServer)
        => /\ CallsOf(calls', "mastodonLogin") # {}
                <=> /\ cfg.MastodonToken # "" /\ cfg.MastodonTokenExpired
                    /\ mastodonCanLogin(cfg)
           /\ (cfg.MastodonAccessToken = ""
                 /\ CallsOf(calls', "mastodonLogin") = {})
                => /\ CallsOf(calls', "mastodonCreatePost") = {}
                   /\ ~last'.mastodonSuccess]_vars

\* The functions that send a request to the Lemmy server.
LemmyOps == {"lemmyLogin", "lemmyGetCommunityID", "lemmyCreatePost"}

\* The functions that send a request to the Mastodon server.
MastodonOps == {"mastodonLogin", "mastodonCreatePost"}

\* C33: in a cycle in which Lemmy is not configured (its server is set, but
\* community, username or password is not) no call goes to Lemmy and Lemmy
\* fails no link; likewise for Mastodon.
C33_UnconfiguredSkipped ==
    /\ (pc \in {"loop", "save"} /\ cfg.LemmyServer /\ ~lemmyConfigured(cfg))
         => /\ \A i \in 1..Len(calls) : calls[i].op \notin LemmyOps
            /\ last.lemmySuccess
    /\ (pc \in {"loop", "save"} /\ ~mastodonConfigured(cfg))
         => /\ \A i \in 1..Len(calls) : calls[i].op \notin MastodonOps
            /\ last.mastodonSuccess

\* C34: an iteration for a link with a text invokes every configured
\* platform, Lemmy before Mastodon: with a Lemmy token the Lemmy post call is
\* made, the Mastodon calls are made whether Lemmy succeeded or not, and
\* whatever failed the loop goes on to the next link.
C34_EveryPlatformInTurn ==
    [][(pc = "loop" /\ last'.excerpt = "text" /\ ~testMode)
        => /\ \A i \in 1..Len(calls'), j \in 1..Len(calls') :
                  (calls'[i].op \in LemmyOps /\ calls'[j].op \in MastodonOps)
                      => i < j
           /\ (lemmyConfigured(cfg) /\ jwt # "")
                => CallsOf(calls', "lemmyCreatePost") # {}
           /\ mastodonConfigured(cfg)
                => \E i \in 1..Len(calls') : calls'[i].op \in MastodonOps
           /\ idx' = idx + 1
           /\ pc' = IF idx' > Len(newLinks) THEN "save" ELSE "loop"]_vars

\* The Lemmy post of a link failed, its Mastodon post was made all the same,
\* and the loop stands at the next link.
C34_Witness ==
    /\ pc = "loop" /\ idx = 2 /\ ~testMode
    /\ \E i \in CallsOf(calls, "lemmyCreatePost") : ~calls[i].ok
    /\ \E i \in CallsOf(calls, "mastodonCreatePost") : calls[i].ok
    /\ ~last.lemmySuccess /\ last.mastodonSuccess

\* C35: a cycle with nothing to post makes no call and refreshes no token;
\* a cycle with links to post makes at most one lemmyLogin and at most one
\* lemmyGetCommunityID call, both before the first link, and none of them in
\* any iteration of the loop.
C35_LazyCredentials ==
    /\ (pc \in {"loop", "save", "returned"} /\ newLinks = <<>>)
         => (calls = <<>> /\ cfg = config)
    /\ (pc = "loop" /\ idx = 1)
         => /\ Cardinality(CallsOf(calls, "lemmyLogin")) <= 1
            /\ Cardinality(CallsOf(calls, "lemmyGetCommunityID")) <= 1
            /\ \A i \in 1..Len(calls) : calls[i].it = 0
    /\ (pc \in {"loop", "save", "returned"} /\ idx > 1)
         => /\ CallsOf(calls, "lemmyLogin") = {}
            /\ CallsOf(calls, "lemmyGetCommunityID") = {}

\* A cycle on a page with links, with Lemmy configured and no usable token,
\* that has nothing to post and has made no call.
C35_Witness ==
    /\ pc = "save" /\ newLinks = <<>> /\ currentLinks # <<>>
    /\ lemmyConfigured(cfg) /\ ~lemmyTokenUsable(cfg)
    /\ calls = <<>>

\* C36: in continuous mode a cycle that returned an error, the first one
\* included, is followed by the wait of runMonitoring and then by a new
\* cycle; the process does not end.
C36_ErrorDoesNotStopScheduler ==
    /\ [](pc \notin {"fatal", "exit"})
    /\ (pc = "returned" /\ err) ~> (pc = "wait")
    /\ (pc = "wait") ~> (pc = "fetch" /\ ~err)

\* Every cycle so far has returned an error (no link file was ever written)
\* and runMonitoring waits for the next tick.
C36_Witness == pc = "wait" /\ ~dataFile.exists

\* C37: a cycle that ends before the new links are computed (the page is not
\* fetched, the links are not extracted, or the link file is not read) ends
\* with an error, writes neither the link file nor the configuration file,
\* refreshes no token and makes no platform call.
C37_AbortLeavesNoTrace ==
    [][(pc = "fetch" /\ pc' = "returned")
        => /\ err'
           /\ dataFile' = dataFile /\ configFile' = configFile
           /\ calls' = <<>> /\ cfg' = config]_vars

\* A cycle has ended before it read the page, with published links on disk.
C37_Witness ==
    /\ pc = "returned" /\ err
    /\ dataFile.exists /\ dataFile.Links # <<>>
    /\ currentLinks = <<>> /\ removedLinks = <<>>

C39_CommunityZeroStillPosts ==
    (/\ pc \in {"loop", "save"} /\ idx > 1 /\ ~testMode
     /\ last.excerpt = "text" /\ lemmyConfigured(cfg)
     /\ jwt # "" /\ communityID = 0)
        => /\ Cardinality(CallsOf(calls, "lemmyCreatePost")) = 1
           /\ \A i \in CallsOf(calls, "lemmyCreatePost") :
                  /\ calls[i].id = 0 /\ calls[i].link = last.link
                  /\ last.lemmySuccess <=> calls[i].ok
                  /\ ~calls[i].ok => last.mark = "FailedLinks"
                  /\ last.mark = "Links" => calls[i].ok

\* After a login that gave a token and a failed community lookup, the post
\* with id 0 was rejected and the link is pending.
C39_Witness ==
    /\ pc \in {"loop", "save"} /\ idx > 1
    /\ jwt = "jwtNew" /\ communityID = 0
    /\ \E i \in CallsOf(calls, "lemmyCreatePost") :
           calls[i].id = 0 /\ ~calls[i].ok
    /\ last.mark = "FailedLinks" /\ last.link \in Pending


==============================================================================
